---- MODULE Spec2Model ----
(***************************************************************************)
(* State-machine model of the scroller / stage controller of AxonStack.tsx *)
(* (LocalZScroller, Card.handleClick, KeyboardNavigator, StackNavApi).     *)
(*                                                                         *)
(* Depths are integers on a grid of 0.01 scene units: the base spacing     *)
(* GAP = 0.18 is 18, a stage gap of 2 is 200, the expanded gap 10 is 1000. *)
(* Scroll positions are exact fractions <<num, den>> of the scroll range.  *)
(* zRef mirrors zSmoothed after every handler and is not kept separately.  *)
(***************************************************************************)
EXTENDS Integers, Sequences, FiniteSets, TLC

\* ---------------------------------------------------------------- bounds
\* number of cards (planeCount; 389 in the application)
NPlanes == 4
\* number of user / facade events in one behaviour
MaxOps == 3

\* ------------------------------------------------------ program constants
Gap == 18
CARD_STAGE_GAP_ABS == 200
STAGE_GAP_WHEN_STAGED == 200
STAGE_GAP_WHEN_EXPANDED == 1000
\* CARD_FAR_THOLD = 2.3, as tenths
CARD_FAR_THOLD == 23
\* CARD_MAX_SPD = 34 cards per second (desktop tuning)
CARD_MAX_SPD == 34
\* hysteresis factor 0.35, as hundredths
HystPct == 35
\* snapEndThreshold default 1.5, as halves
snapEndThreshold == 3
\* el.scrollHeight - el.clientHeight of the host scroll element, in pixels
ScrollMax == 20000
NAV_LOCK_FRAMES == 2
SWITCH_LOCK_FRAMES == 4

\* the absent value of a nullable ref
Null == 0 - 1000

MaxIdx == NPlanes - 1
Indices == 0 .. MaxIdx

\* frame durations in milliseconds offered to useFrame
DtSet == {200}

\* ------------------------------------------------------------ arithmetic
Abs(x) == IF x < 0 THEN 0 - x ELSE x
Min(a, b) == IF a < b THEN a ELSE b
Max(a, b) == IF a > b THEN a ELSE b
Sign(x) == IF x > 0 THEN 1 ELSE IF x < 0 THEN 0 - 1 ELSE 0
Clamp(x, lo, hi) == Max(lo, Min(hi, x))

RECURSIVE Gcd(_, _)
Gcd(a, b) == IF b = 0 THEN a ELSE Gcd(b, a % b)

\* a fraction num/den in lowest terms (den > 0, 0 <= num <= den)
Frac(num, den) ==
  LET g == Gcd(num, den)
  IN  IF num = 0 THEN <<0, 1>> ELSE <<num \div g, den \div g>>

\* nearest integer to a/b for a >= 0, b > 0
RoundDiv(a, b) == (2 * a + b) \div (2 * b)

\* ceiling of a/b for a >= 0, b > 0
CeilDiv(a, b) == (a + b - 1) \div b

\* 1 - exp(-dt / TAU) in thousandths, TAU = 0.2 s (desktop tuning)
AlphaPermille(dt) ==
  CASE dt = 16 -> 77
    [] dt = 50 -> 221
    [] dt = 100 -> 393
    [] dt = 200 -> 632
    [] dt = 1000 -> 993
    [] OTHER -> 1000

\* ------------------------------------------------------------- the groups
\* GROUP_RANGES of the instance: three groups and one index (2) that
\* belongs to no group, as index 251 in the application's ANCHORS table.
GROUP_RANGES == << <<0, 0>>, <<1, 1>>, <<3, MaxIdx>> >>

\* the last group whose range contains i, -1 when there is none
groupIndexMap(i) ==
  LET hits == {gi \in 1 .. Len(GROUP_RANGES) :
                 GROUP_RANGES[gi][1] <= i /\ i <= GROUP_RANGES[gi][2] /\ i < NPlanes}
  IN  IF hits = {} THEN 0 - 1
      ELSE (CHOOSE gi \in hits : \A h \in hits : h <= gi) - 1


\* ------------------------------------------------------ pure depth mapping
\* a group offset that forgets the focus group
stageOffsetFromFirstGroup(s, i) ==
  IF ~(s.groupGapsActive /\ s.stageGap > 0) THEN 0
  ELSE LET gi == groupIndexMap(i)
       IN  IF gi < 0 THEN 0 ELSE gi * Max(0, s.stageGap - Gap)

\* stageOffsetForIndex: the group offset of card i in the scroll mapping
stageOffsetForIndex(s, i) ==
  IF ~(s.groupGapsActive /\ s.stageGap > 0) THEN 0
  ELSE LET gi == groupIndexMap(i)
       IN  IF gi < 0 THEN 0
           ELSE (gi - s.focusGroup) * Max(0, s.stageGap - Gap)

\* getZSpan: depth of the first and of the last card with the current offsets
zTopOf(s) == 0 - (0 * Gap + stageOffsetForIndex(s, 0))
zBottomOf(s) == 0 - (Max(0, NPlanes - 1) * Gap + stageOffsetForIndex(s, Max(0, NPlanes - 1)))

\* zOfIndex of the center resolver
zOfIndex(s, i) ==
  LET off == IF s.groupGapsActive /\ s.stageGap > 0
             THEN LET gi == groupIndexMap(i)
                  IN  IF gi >= 0 THEN (gi - s.focusGroup) * Max(0, s.stageGap - Gap)
                      ELSE 0
             ELSE 0
  IN  0 - (i * Gap + off)

\* a card offset in which the group gaps come before a staged index or range
cardStageOffsetGroupsFirst(s, index) ==
  LET delta == Max(0, s.stageGap - Gap)
  IN  IF s.groupGapsActive /\ s.stageGap > 0
      THEN LET gi == groupIndexMap(index)
           IN  IF gi >= 0 THEN (gi - s.focusGroup) * delta ELSE 0
      ELSE IF s.stagedRangeStart # Null /\ s.stagedRangeEnd # Null
      THEN IF index < s.stagedRangeStart THEN 0 - delta
           ELSE IF index > s.stagedRangeEnd THEN delta ELSE 0
      ELSE IF s.stagedIndex # Null
      THEN IF index > s.stagedIndex THEN delta
           ELSE IF index < s.stagedIndex THEN 0 - delta ELSE 0
      ELSE 0

\* Card.useFrame: the stage offset of a card that is not expanded
cardStageOffset(s, index) ==
  LET delta == Max(0, s.stageGap - Gap)
  IN  IF ~(Gap > 0) THEN 0
      ELSE IF s.stagedRangeStart # Null /\ s.stagedRangeEnd # Null
      THEN IF index < s.stagedRangeStart THEN 0 - delta
           ELSE IF index > s.stagedRangeEnd THEN delta ELSE 0
      ELSE IF s.stagedIndex # Null
      THEN IF index > s.stagedIndex THEN delta
           ELSE IF index < s.stagedIndex THEN 0 - delta ELSE 0
      ELSE IF s.groupGapsActive /\ s.stageGap > 0
      THEN LET gi == groupIndexMap(index)
           IN  IF gi >= 0 THEN (gi - s.focusGroup) * delta ELSE 0
      ELSE 0

clampIndex(i) == Max(0, Min(NPlanes - 1, i))

\* ------------------------------------------------------------- operations
\* centerOn: sets the host scroll position to the one that maps to card i
\* the stage modes that are on, recorded right after a stage call
ModeOf(s) ==
  [single |-> s.stagedIndex # Null,
   range |-> s.stagedRangeStart # Null /\ s.stagedRangeEnd # Null,
   groups |-> s.groupGapsActive]

Logged(s, op) ==
  [s EXCEPT !.calls = @ \cup {[op |-> op, mode |-> ModeOf(s),
                               index |-> s.stagedIndex, gap |-> s.stageGap]}]

centerOn(s, index) ==
  LET i == Max(0, Min(NPlanes - 1, index))
      targetZ == 0 - (i * Gap + stageOffsetForIndex(s, i))
      zTop == zTopOf(s)
      zBottom == zBottomOf(s)
      num == Clamp(zTop - targetZ, 0, zTop - zBottom)
  IN  IF ~s.elAvail THEN s
      ELSE Logged([s EXCEPT !.scroll = Frac(num, zTop - zBottom)], "scrollTo")

stageRangeAt(s, start, end, gapAbs, follow) ==
  LET maxIdx == NPlanes - 1
      st == Max(0, Min(maxIdx, Min(start, end)))
      en == Max(0, Min(maxIdx, Max(start, end)))
  IN  Logged([s EXCEPT !.stagedIndex = Null,
                       !.stagedRangeStart = st,
                       !.stagedRangeEnd = en,
                       !.stagedRangeSpan = en - st,
                       !.stageGap = Max(0, gapAbs),
                       !.followRange = follow], "stageRangeAt")

stageAt(s, index, gapAbs) ==
  Logged([s EXCEPT !.stagedIndex = index,
                   !.stageGap = Max(0, gapAbs)], "stageAt")

\* a clearStage that does not set the nav lock
clearStageNoLock(s) ==
  LET t == [s EXCEPT !.stagedIndex = Null,
                     !.stagedRangeStart = Null,
                     !.stagedRangeEnd = Null,
                     !.stagedRangeSpan = 0,
                     !.groupGapsActive = FALSE,
                     !.stageGap = 0]
  IN  IF s.groupGapsActive
      THEN centerOn([t EXCEPT !.zSmoothed = 0 - (s.centerIndex * Gap)], s.centerIndex)
      ELSE t

clearStage(s) ==
  LET keepIndex == s.centerIndex
      wasGroupGaps == s.groupGapsActive
      t == [s EXCEPT !.stagedIndex = Null,
                     !.stagedRangeStart = Null,
                     !.stagedRangeEnd = Null,
                     !.stagedRangeSpan = 0,
                     !.groupGapsActive = FALSE,
                     !.stageGap = 0]
  IN  IF wasGroupGaps
      THEN [centerOn([t EXCEPT !.zSmoothed = 0 - (keepIndex * Gap)], keepIndex)
              EXCEPT !.navLock = NAV_LOCK_FRAMES]
      ELSE t

NoPendingRange ==
  [start |-> Null, end |-> Null, gapAbs |-> 0, triggerAt |-> Null, follow |-> FALSE]

\* a snapshot that leaves the range bounds out
snapshotStageNoRange(a, s) ==
  [a EXCEPT !.prevStageGap = s.stageGap,
            !.prevGroupGapsActive = s.groupGapsActive,
            !.prevStagedIndex = s.stagedIndex,
            !.stageGap = STAGE_GAP_WHEN_EXPANDED]

\* setExpandedIndex, entering from Collapsed: the snapshot of the stage
snapshotStage(a, s) ==
  [a EXCEPT !.prevStageGap = s.stageGap,
            !.prevGroupGapsActive = s.groupGapsActive,
            !.prevStagedIndex = s.stagedIndex,
            !.prevRangeStart = s.stagedRangeStart,
            !.prevRangeEnd = s.stagedRangeEnd,
            !.stageGap = STAGE_GAP_WHEN_EXPANDED]

\* a restore that never switches the group gaps back on
restoreStageNoGroups(a, s) ==
  [a EXCEPT !.groupGapsActive = FALSE,
            !.stageGap = s.prevStageGap,
            !.stagedIndex = s.prevStagedIndex,
            !.stagedRangeStart = s.prevRangeStart,
            !.stagedRangeEnd = s.prevRangeEnd,
            !.stagedRangeSpan = IF s.prevRangeStart # Null
                                THEN s.prevRangeEnd - s.prevRangeStart ELSE 0]

\* setExpandedIndex, leaving Expanded: the stage goes back to the snapshot
restoreStage(a, s) ==
  LET hadGroupGapsBefore == s.prevGroupGapsActive
      hadSingleBefore == s.prevStagedIndex # Null
      hadRangeBefore == s.prevRangeStart # Null /\ s.prevRangeEnd # Null
  IN  IF hadGroupGapsBefore
      THEN [a EXCEPT !.groupGapsActive = TRUE,
                     !.stageGap = s.prevStageGap,
                     !.stagedIndex = Null,
                     !.stagedRangeStart = Null,
                     !.stagedRangeEnd = Null,
                     !.stagedRangeSpan = 0]
      ELSE IF hadSingleBefore \/ hadRangeBefore
      THEN [a EXCEPT !.groupGapsActive = FALSE,
                     !.stageGap = s.prevStageGap,
                     !.stagedIndex = IF hadSingleBefore THEN s.prevStagedIndex ELSE Null,
                     !.stagedRangeStart = IF hadRangeBefore THEN s.prevRangeStart ELSE Null,
                     !.stagedRangeEnd = IF hadRangeBefore THEN s.prevRangeEnd ELSE Null,
                     !.stagedRangeSpan = IF hadRangeBefore
                                         THEN s.prevRangeEnd - s.prevRangeStart ELSE 0]
      ELSE [a EXCEPT !.groupGapsActive = FALSE,
                     !.stagedIndex = Null,
                     !.stagedRangeStart = Null,
                     !.stagedRangeEnd = Null,
                     !.stagedRangeSpan = 0,
                     !.stageGap = 0]

\* a setExpandedIndex that takes the snapshot on every entering call
setExpandedIndexSnapshotsAlways(s, idx) ==
  LET wasExpanded == s.expandedIndex # Null
      a == [s EXCEPT !.expandedIndex = idx,
                     !.emits = @ \cup {<<"expanded", idx>>}]
  IN  IF idx # Null
      THEN snapshotStage(a, s)
      ELSE IF ~wasExpanded THEN a
      ELSE LET c == [restoreStage(a, s) EXCEPT !.pendingStageIndex = Null,
                                               !.pendingStageRange = NoPendingRange]
           IN  [centerOn(c, c.centerIndex) EXCEPT !.navLock = NAV_LOCK_FRAMES]

\* a setExpandedIndex that keeps the pending requests on leaving
setExpandedIndexKeepsPending(s, idx) ==
  LET wasExpanded == s.expandedIndex # Null
      a == [s EXCEPT !.expandedIndex = idx,
                     !.emits = @ \cup {<<"expanded", idx>>}]
  IN  IF idx # Null
      THEN IF ~wasExpanded THEN snapshotStage(a, s) ELSE a
      ELSE IF ~wasExpanded THEN a
      ELSE [centerOn(restoreStage(a, s), a.centerIndex) EXCEPT !.navLock = NAV_LOCK_FRAMES]

setExpandedIndex(s, idx) ==
  LET wasExpanded == s.expandedIndex # Null
      a == [s EXCEPT !.expandedIndex = idx,
                     !.emits = @ \cup {<<"expanded", idx>>}]
  IN  IF idx # Null
      THEN IF ~wasExpanded THEN snapshotStage(a, s) ELSE a
      ELSE IF ~wasExpanded THEN a
      ELSE LET c == [restoreStage(a, s) EXCEPT !.pendingStageIndex = Null,
                                               !.pendingStageRange = NoPendingRange]
           IN  [centerOn(c, c.centerIndex) EXCEPT !.navLock = NAV_LOCK_FRAMES]

collapseExpanded(s) ==
  IF s.expandedIndex # Null THEN setExpandedIndex(s, Null) ELSE s

\* ------------------------------------------------------ navigation facade
goTo(s, index) == centerOn(s, clampIndex(index))

goToAndStage(s, index, gapAbs) ==
  LET i == clampIndex(index)
  IN  centerOn([s EXCEPT !.pendingStageIndex = i,
                         !.pendingStageGap = Max(0, gapAbs)], i)

\* findIndex over GROUP_RANGES, 0-based, -1 when nothing matches
findIndex(P(_)) ==
  LET hits == {gi \in 1 .. Len(GROUP_RANGES) : P(GROUP_RANGES[gi])}
  IN  IF hits = {} THEN 0 - 1
      ELSE (CHOOSE gi \in hits : \A h \in hits : gi <= h) - 1

goToRangeAndStage(s, start, end, gapAbs) ==
  LET c == clearStage(s)
      st == Max(0, Min(NPlanes - 1, Min(start, end)))
      en == Max(0, Min(NPlanes - 1, Max(start, end)))
      exact(r) == r[1] = st /\ r[2] = en
      holds(r) == st >= r[1] /\ st <= r[2]
      gid == IF findIndex(exact) >= 0 THEN findIndex(exact)
             ELSE Max(0, findIndex(holds))
      o == Logged([c EXCEPT !.groupGapsActive = TRUE,
                            !.stageGap = Max(0, gapAbs),
                            !.focusGroup = gid], "stageAllGroups")
  IN  [centerOn(o, st) EXCEPT !.navLock = NAV_LOCK_FRAMES]

goToGroupAndStage(s, start, end, gapAbs) ==
  LET c == clearStage(s)
      st == clampIndex(Min(start, end))
      en == clampIndex(Max(start, end))
      p == [c EXCEPT !.pendingStageRange =
              [start |-> st, end |-> en, gapAbs |-> Max(0, gapAbs),
               triggerAt |-> st, follow |-> FALSE]]
  IN  [centerOn(p, st) EXCEPT !.navLock = NAV_LOCK_FRAMES]

setAutoScroll(s, velPxPerSec) == [s EXCEPT !.autoVel = velPxPerSec]
stopAutoScroll(s) == [s EXCEPT !.autoVel = 0]


\* ----------------------------------------------------- the per-frame update
\* scroll signal adapter: the normalized progress p as a fraction
scrollSignal(s) ==
  LET d == s.scroll[2]
      n == Clamp(s.scroll[1], 0, d)
      atTop == s.elAvail /\ s.scroll[1] * ScrollMax <= d
      atBottom == s.elAvail /\ Abs(d - s.scroll[1]) * ScrollMax <= d
      p1 == IF atBottom THEN <<1, 1>> ELSE IF atTop THEN <<0, 1>> ELSE <<n, d>>
  IN  IF 2 * p1[1] > snapEndThreshold * p1[2] THEN <<1, 1>>
      ELSE IF 2 * p1[1] < (2 - snapEndThreshold) * p1[2] THEN <<0, 1>>
      ELSE p1

\* zTarget = lerp(zTop, zBottom, p), rounded to the depth grid
zTargetOf(s) ==
  LET p == scrollSignal(s)
      zTop == zTopOf(s)
      zBottom == zBottomOf(s)
  IN  zTop - RoundDiv((zTop - zBottom) * p[1], p[2])

\* a controller whose far regime always takes the full step
integrateNoCap(z, zTarget, dt) ==
  LET delta == zTarget - z
      maxStep == (Gap * CARD_MAX_SPD * dt) \div 1000
      far == Abs(delta) * 10 > Gap * CARD_FAR_THOLD
  IN  IF far THEN z + Sign(delta) * maxStep
      ELSE z + Sign(delta) * CeilDiv(Abs(delta) * AlphaPermille(dt), 1000)

\* hybrid controller: one step of zSmoothed towards zTarget in dt milliseconds.
\* The exponential step is rounded away from zero, so that a non-zero
\* remainder always shrinks, as it does in floating point.
integrate(z, zTarget, dt) ==
  LET delta == zTarget - z
      maxStep == (Gap * CARD_MAX_SPD * dt) \div 1000
      far == Abs(delta) * 10 > Gap * CARD_FAR_THOLD
      z1 == IF far
            THEN IF Abs(delta) > maxStep THEN z + Sign(delta) * maxStep ELSE z + delta
            ELSE z + Sign(delta) * CeilDiv(Abs(delta) * AlphaPermille(dt), 1000)
  IN  IF Abs(zTarget - z1) * 100 < 1 THEN zTarget ELSE z1

\* an arrival test that does not wait for the centered index
arrivedAnywhere(s) == s.centerIndex \in Indices

\* the arrival test of a deferred single-index stage
arrived(s) == s.centerIndex = s.pendingStageIndex

stageAfterArriveSingle(s) ==
  IF s.pendingStageIndex # Null /\ arrived(s)
  THEN [stageAt(s, s.centerIndex, s.pendingStageGap) EXCEPT !.pendingStageIndex = Null]
  ELSE s

\* a follow step that keeps the end of the range where it was
followRangeStepKeepsEnd(s) ==
  IF s.followRange /\ s.stagedRangeStart # Null /\ s.stagedRangeEnd # Null /\ s.stageGap > 0
  THEN LET span == s.stagedRangeSpan
           maxStart == Max(0, (NPlanes - 1) - span)
           startFollow == Max(0, Min(maxStart, (2 * s.centerIndex - span) \div 2))
       IN  [s EXCEPT !.stagedRangeStart = startFollow]
  ELSE s

followRangeStep(s) ==
  IF s.followRange /\ s.stagedRangeStart # Null /\ s.stagedRangeEnd # Null /\ s.stageGap > 0
  THEN LET span == s.stagedRangeSpan
           maxStart == Max(0, (NPlanes - 1) - span)
           startFollow == Max(0, Min(maxStart, (2 * s.centerIndex - span) \div 2))
       IN  [s EXCEPT !.stagedRangeStart = startFollow,
                     !.stagedRangeEnd = startFollow + span]
  ELSE s

\* a frame that never clears a fixed range
autoCollapseNever(s) == s

autoCollapse(s) ==
  IF ~s.followRange /\ s.stagedRangeStart # Null /\ s.stagedRangeEnd # Null /\ s.stageGap > 0
     /\ (s.centerIndex < s.stagedRangeStart \/ s.centerIndex > s.stagedRangeEnd)
  THEN [clearStage(s) EXCEPT !.navLock = NAV_LOCK_FRAMES]
  ELSE s

\* an auto-scroll that does not look at the expanded index
autoScrollWhileExpanded(s, dt) ==
  IF s.elAvail /\ s.autoVel # 0
  THEN LET n == s.scroll[1]
           d == s.scroll[2]
           px == Frac(Min(ScrollMax, Abs(s.autoVel * dt) \div 1000), ScrollMax)
           den == d * px[2]
           num == n * px[2] + Sign(s.autoVel) * px[1] * d
       IN  [s EXCEPT !.scroll = Frac(Clamp(num, 0, den), den)]
  ELSE s

autoScrollStep(s, dt) ==
  IF s.elAvail /\ s.expandedIndex = Null /\ s.autoVel # 0
  THEN LET n == s.scroll[1]
           d == s.scroll[2]
           px == Frac(Min(ScrollMax, Abs(s.autoVel * dt) \div 1000), ScrollMax)
           den == d * px[2]
           num == n * px[2] + Sign(s.autoVel) * px[1] * d
       IN  [s EXCEPT !.scroll = Frac(Clamp(num, 0, den), den)]
  ELSE s

pendingStep(s) ==
  IF s.pendingStageRange # NoPendingRange
  THEN IF s.centerIndex = s.pendingStageRange.triggerAt
       THEN [stageRangeAt(s, s.pendingStageRange.start, s.pendingStageRange.end,
                          s.pendingStageRange.gapAbs, s.pendingStageRange.follow)
               EXCEPT !.pendingStageRange = NoPendingRange]
       ELSE s
  ELSE stageAfterArriveSingle(s)

\* nearest card to depth z, the first one on a tie
nearestIndex(s) ==
  LET dist(i) == Abs(s.zSmoothed - zOfIndex(s, i))
  IN  CHOOSE i \in 0 .. Max(0, NPlanes - 1) :
        /\ \A j \in 0 .. Max(0, NPlanes - 1) : dist(i) <= dist(j)
        /\ \A j \in 0 .. (i - 1) : dist(j) > dist(i)

\* a hysteresis band that reaches the midpoint
withinHalfGap(prevDist) == prevDist * 100 <= Gap * 50

\* the hysteresis test: the previous center is kept while it is this near
withinHysteresis(prevDist) == prevDist * 100 < Gap * HystPct

\* a resolver that recomputes the center while the lock counts down
centerResolverIgnoresLock(s) ==
  LET near == nearestIndex(s)
      prev == IF s.centerPrev = Null THEN near ELSE s.centerPrev
      prevDist == Abs(s.zSmoothed - zOfIndex(s, prev))
      res == IF withinHysteresis(prevDist) THEN prev ELSE near
  IN  [s EXCEPT !.centerIndex = res, !.centerPrev = res,
                !.navLock = IF @ > 0 THEN @ - 1 ELSE 0]

centerResolver(s) ==
  IF s.navLock > 0 THEN [s EXCEPT !.navLock = @ - 1]
  ELSE LET near == nearestIndex(s)
           prev == IF s.centerPrev = Null THEN near ELSE s.centerPrev
           prevDist == Abs(s.zSmoothed - zOfIndex(s, prev))
           res == IF withinHysteresis(prevDist) THEN prev ELSE near
       IN  [s EXCEPT !.centerIndex = res, !.centerPrev = res]

emitCenter(s) ==
  IF s.centerIndex # s.lastEmittedCenter
  THEN [s EXCEPT !.lastEmittedCenter = s.centerIndex,
                 !.emits = @ \cup {<<"center", s.centerIndex>>}]
  ELSE s

\* a decrement that does not stop at 0
switchLockNoFloor(s) == [s EXCEPT !.expandedSwitchLock = @ - 1]

switchLockStep(s) ==
  IF s.expandedSwitchLock > 0 THEN [s EXCEPT !.expandedSwitchLock = @ - 1] ELSE s

stagedFollowStep(s) ==
  IF s.stagedIndex # Null /\ s.stageGap > 0 /\ s.stagedIndex # s.centerIndex
  THEN [s EXCEPT !.stagedIndex = s.centerIndex]
  ELSE s

\* the steps of a frame that come before the center resolver
beforeCenter(s, dt) ==
  LET s1 == [s EXCEPT !.zSmoothed = integrate(s.zSmoothed, zTargetOf(s), dt)]
      s2 == stageAfterArriveSingle(s1)
      s3 == followRangeStep(s2)
      s4 == autoCollapse(s3)
      s5 == autoScrollStep(s4, dt)
  IN  pendingStep(s5)

frame(s, dt) ==
  LET s6 == beforeCenter(s, dt)
      s7 == centerResolver(s6)
      s8 == emitCenter(s7)
      s9 == switchLockStep(s8)
  IN  stagedFollowStep(s9)

\* ------------------------------------------------------------ UI handlers
\* a handleClick that expands the clicked card whether centered or not
handleClickExpandsAnywhere(s, index) ==
  IF s.expandedIndex = index THEN setExpandedIndex(s, Null)
  ELSE setExpandedIndex(s, index)

\* Card.handleClick of card index
handleClick(s, index) ==
  LET isCenter == s.centerIndex = index
      inStagedRange == s.stagedRangeStart # Null /\ s.stagedRangeEnd # Null
                       /\ index >= s.stagedRangeStart /\ index <= s.stagedRangeEnd
      isSingleStagedHere == s.stagedIndex = index
  IN  IF s.expandedIndex = index THEN setExpandedIndex(s, Null)
      ELSE IF s.groupGapsActive
           THEN IF ~isCenter THEN centerOn(s, index) ELSE setExpandedIndex(s, index)
      ELSE IF ~isCenter THEN centerOn(s, index)
      ELSE IF inStagedRange THEN setExpandedIndex(s, index)
      ELSE IF ~isSingleStagedHere /\ s.stagedRangeStart = Null /\ s.stagedRangeEnd = Null
           THEN stageAt(s, index, CARD_STAGE_GAP_ABS)
      ELSE setExpandedIndex(s, index)

\* Canvas.onPointerMissed
backgroundClick(s) == collapseExpanded(clearStage(s))

\* an onKey that steps past the first and the last card
onKeyNoClamp(s, step) ==
  IF s.expandedIndex = Null THEN s
  ELSE LET next == s.centerIndex + step
           a == [s EXCEPT !.centerPrev = next,
                          !.centerIndex = next,
                          !.navLock = NAV_LOCK_FRAMES]
           b == centerOn(a, next)
           c == [b EXCEPT !.lastExpandedIndex = b.expandedIndex,
                          !.expandedSwitchLock = SWITCH_LOCK_FRAMES]
       IN  setExpandedIndex(c, next)

\* KeyboardNavigator.onKey for ArrowRight (step 1) and ArrowLeft (step -1)
onKey(s, step) ==
  IF s.expandedIndex = Null THEN s
  ELSE LET next == Max(0, Min(NPlanes - 1, s.centerIndex + step))
           a == [s EXCEPT !.centerPrev = next,
                          !.centerIndex = next,
                          !.navLock = NAV_LOCK_FRAMES]
           b == centerOn(a, next)
           c == [b EXCEPT !.lastExpandedIndex = b.expandedIndex,
                          !.expandedSwitchLock = SWITCH_LOCK_FRAMES]
       IN  setExpandedIndex(c, next)


\* ------------------------------------------------------------------ state
\* the refs of LocalZScroller, the host scroll position, and the history
\* variables calls / emits (stage calls and observer callbacks of the last
\* handler), lastOp, ops, entry (stage mode at Collapsed -> Expanded) and
\* goal (target of a goTo that no other input has followed), asked (the
\* range a goToGroupAndStage asked for, while only frame ticks follow it)
VARIABLES
  elAvail, scroll, autoVel, zSmoothed,
  centerIndex, centerPrev, stagedIndex, stageGap,
  stagedRangeStart, stagedRangeEnd, stagedRangeSpan, followRange,
  groupGapsActive, focusGroup, expandedIndex, lastExpandedIndex,
  expandedSwitchLock, navLock, pendingStageIndex, pendingStageGap,
  pendingStageRange, prevStageGap, prevGroupGapsActive, prevStagedIndex,
  prevRangeStart, prevRangeEnd, lastEmittedCenter, calls,
  emits, lastOp, ops, entry,
  goal, heldFrom, asked,
  mZ, mTarget, mDt, mStart, mTicks,
  names, loader, textures

vars ==
  <<elAvail, scroll, autoVel, zSmoothed,
    centerIndex, centerPrev, stagedIndex, stageGap,
    stagedRangeStart, stagedRangeEnd, stagedRangeSpan, followRange,
    groupGapsActive, focusGroup, expandedIndex, lastExpandedIndex,
    expandedSwitchLock, navLock, pendingStageIndex, pendingStageGap,
    pendingStageRange, prevStageGap, prevGroupGapsActive, prevStagedIndex,
    prevRangeStart, prevRangeEnd, lastEmittedCenter, calls,
    emits, lastOp, ops, entry,
    goal, heldFrom, asked,
    mZ, mTarget, mDt, mStart, mTicks,
    names, loader, textures>>

\* the variables of the motion specification
motionVars == <<mZ, mTarget, mDt, mStart, mTicks>>

\* the page around the stack: the names sheet, the loader overlay and the
\* textures of the cards
uiVars == <<names, loader, textures>>

\* useIsMobile starts false, the sheet closed; sel lists the selectGroup calls
InitNames == [isMobile |-> FALSE, namesOpen |-> FALSE, sel |-> <<>>]

\* the gate { total: 0, loaded: 0, done: false }, the overlay mounted and
\* visible; hasTransition is the answer of getComputedStyle for the overlay,
\* listening the transitionend listener of the fade-out effect, effectDue a
\* run of that effect that React has scheduled; itemsLoaded, itemsTotal and
\* isLoading are the counters of THREE.DefaultLoadingManager
InitLoader(hasTransition) ==
  [total |-> 0, loaded |-> 0, gateDone |-> FALSE, done |-> FALSE, hidden |-> FALSE,
   emitted |-> FALSE, listening |-> FALSE, hasTransition |-> hasTransition,
   effectDue |-> FALSE, onDoneCalls |-> 0, fired |-> FALSE, introStarts |-> 0,
   itemsLoaded |-> 0, itemsTotal |-> 0, isLoading |-> FALSE]

\* no card holds a texture, no load is in flight; inFlight counts the loads
\* of a card that have not called back, failed tells that its last load
\* ended in onError, disposed that a texture of it has been disposed
InitTextures ==
  [tex |-> [i \in 0 .. (NPlanes - 1) |-> FALSE],
   loading |-> [i \in 0 .. (NPlanes - 1) |-> FALSE],
   inFlight |-> [i \in 0 .. (NPlanes - 1) |-> 0],
   failed |-> [i \in 0 .. (NPlanes - 1) |-> FALSE],
   disposed |-> [i \in 0 .. (NPlanes - 1) |-> FALSE]]

InitUi ==
  /\ names = InitNames
  /\ loader = InitLoader(TRUE)
  /\ textures = InitTextures

Cur ==
  [elAvail |-> elAvail,
   scroll |-> scroll,
   autoVel |-> autoVel,
   zSmoothed |-> zSmoothed,
   centerIndex |-> centerIndex,
   centerPrev |-> centerPrev,
   stagedIndex |-> stagedIndex,
   stageGap |-> stageGap,
   stagedRangeStart |-> stagedRangeStart,
   stagedRangeEnd |-> stagedRangeEnd,
   stagedRangeSpan |-> stagedRangeSpan,
   followRange |-> followRange,
   groupGapsActive |-> groupGapsActive,
   focusGroup |-> focusGroup,
   expandedIndex |-> expandedIndex,
   lastExpandedIndex |-> lastExpandedIndex,
   expandedSwitchLock |-> expandedSwitchLock,
   navLock |-> navLock,
   pendingStageIndex |-> pendingStageIndex,
   pendingStageGap |-> pendingStageGap,
   pendingStageRange |-> pendingStageRange,
   prevStageGap |-> prevStageGap,
   prevGroupGapsActive |-> prevGroupGapsActive,
   prevStagedIndex |-> prevStagedIndex,
   prevRangeStart |-> prevRangeStart,
   prevRangeEnd |-> prevRangeEnd,
   lastEmittedCenter |-> lastEmittedCenter,
   calls |-> calls,
   emits |-> emits]

Set(r) ==
  /\ elAvail' = r.elAvail
  /\ scroll' = r.scroll
  /\ autoVel' = r.autoVel
  /\ zSmoothed' = r.zSmoothed
  /\ centerIndex' = r.centerIndex
  /\ centerPrev' = r.centerPrev
  /\ stagedIndex' = r.stagedIndex
  /\ stageGap' = r.stageGap
  /\ stagedRangeStart' = r.stagedRangeStart
  /\ stagedRangeEnd' = r.stagedRangeEnd
  /\ stagedRangeSpan' = r.stagedRangeSpan
  /\ followRange' = r.followRange
  /\ groupGapsActive' = r.groupGapsActive
  /\ focusGroup' = r.focusGroup
  /\ expandedIndex' = r.expandedIndex
  /\ lastExpandedIndex' = r.lastExpandedIndex
  /\ expandedSwitchLock' = r.expandedSwitchLock
  /\ navLock' = r.navLock
  /\ pendingStageIndex' = r.pendingStageIndex
  /\ pendingStageGap' = r.pendingStageGap
  /\ pendingStageRange' = r.pendingStageRange
  /\ prevStageGap' = r.prevStageGap
  /\ prevGroupGapsActive' = r.prevGroupGapsActive
  /\ prevStagedIndex' = r.prevStagedIndex
  /\ prevRangeStart' = r.prevRangeStart
  /\ prevRangeEnd' = r.prevRangeEnd
  /\ lastEmittedCenter' = r.lastEmittedCenter
  /\ calls' = r.calls
  /\ emits' = r.emits

\* the state a handler starts from: the history of the previous one is dropped
Begin == [Cur EXCEPT !.calls = {}, !.emits = {}]

\* no range asked for
NoAsk == [start |-> Null, end |-> Null, gap |-> 0]

\* the range and gap that goToGroupAndStage(a, b, gapAbs) asks for
Asked(a, b, gapAbs) ==
  [start |-> Max(0, Min(NPlanes - 1, Min(a, b))),
   end |-> Max(0, Min(NPlanes - 1, Max(a, b))),
   gap |-> Max(0, gapAbs)]

NoEntry ==
  [on |-> FALSE, single |-> Null, rangeStart |-> Null, rangeEnd |-> Null,
   gap |-> 0, groups |-> FALSE, focus |-> 0, follow |-> FALSE, touched |-> FALSE]

\* entry after a handler that takes the state from Cur to r; stageOp tells
\* whether the handler was a stage request of the facade
EntryAfter(r, stageOp) ==
  IF r.expandedIndex = Null THEN NoEntry
  ELSE IF expandedIndex = Null
  THEN [on |-> TRUE, single |-> stagedIndex, rangeStart |-> stagedRangeStart,
        rangeEnd |-> stagedRangeEnd, gap |-> stageGap, groups |-> groupGapsActive,
        focus |-> focusGroup, follow |-> followRange, touched |-> FALSE]
  ELSE [entry EXCEPT !.touched = @ \/ stageOp]

InitStack ==
  /\ elAvail = FALSE
  /\ scroll = <<0, 1>>
  /\ autoVel = 0
  /\ zSmoothed = 0
  /\ centerIndex = 0
  /\ centerPrev = Null
  /\ stagedIndex = Null
  /\ stageGap = 0
  /\ stagedRangeStart = Null
  /\ stagedRangeEnd = Null
  /\ stagedRangeSpan = 0
  /\ followRange = FALSE
  /\ groupGapsActive = FALSE
  /\ focusGroup = 0
  /\ expandedIndex = Null
  /\ lastExpandedIndex = Null
  /\ expandedSwitchLock = 0
  /\ navLock = 0
  /\ pendingStageIndex = Null
  /\ pendingStageGap = 200
  /\ pendingStageRange = NoPendingRange
  /\ prevStageGap = 0
  /\ prevGroupGapsActive = FALSE
  /\ prevStagedIndex = Null
  /\ prevRangeStart = Null
  /\ prevRangeEnd = Null
  /\ lastEmittedCenter = 0
  /\ calls = {}
  /\ emits = {}
  /\ lastOp = "init"
  /\ ops = 0
  /\ entry = NoEntry
  /\ goal = Null
  /\ heldFrom = Null
  /\ asked = NoAsk

Init ==
  /\ InitStack
  /\ mZ = 0
  /\ mTarget = 0
  /\ mDt = 0
  /\ mStart = 0
  /\ mTicks = 0
  /\ InitUi

\* ------------------------------------------------------------ input sets
\* index arguments: below the range, inside it, above it
IdxArgs == {0 - 1, 2, NPlanes}
\* <<index, gapAbs>> arguments of goToAndStage
StageArgs == {<<0 - 1, 200>>, <<2, 200>>, <<NPlanes, 0 - 200>>}
\* <<start, end, gapAbs>> arguments of the range operations: a group, an
\* inverted range that reaches past the last card, a range with a negative gap
RangeArgs == {<<0, 0, 200>>, <<NPlanes + 1, 3, 200>>, <<0 - 1, 1, 0 - 200>>}
\* velocities of the drag knob, in pixels per second
AutoVelArgs == {25000}
\* twice the depths the user scrolls to: the midpoints of neighbouring cards
ScrollTargets(s) ==
  {zOfIndex(s, i) + zOfIndex(s, i + 1) : i \in 0 .. (MaxIdx - 1)}

\* --------------------------------------------------------------- actions
\* an input event: handler result r, name op
InputStack(r, op, stageOp, newGoal, newAsk) ==
  /\ ops < MaxOps
  /\ Set(r)
  /\ lastOp' = op
  /\ ops' = ops + 1
  /\ entry' = EntryAfter(r, stageOp)
  /\ goal' = newGoal
  /\ heldFrom' = Null
  /\ asked' = newAsk
  /\ UNCHANGED motionVars

\* an input event that leaves the page around the stack alone
InputAsk(r, op, stageOp, newGoal, newAsk) ==
  /\ InputStack(r, op, stageOp, newGoal, newAsk)
  /\ UNCHANGED uiVars

Input(r, op, stageOp, newGoal) == InputAsk(r, op, stageOp, newGoal, NoAsk)

\* the host scroll element becomes available
MountScrollEl ==
  /\ ~elAvail
  /\ Set([Begin EXCEPT !.elAvail = TRUE])
  /\ lastOp' = "mount"
  /\ heldFrom' = Null
  /\ asked' = NoAsk
  /\ UNCHANGED <<ops, entry, goal>>
  /\ UNCHANGED motionVars
  /\ UNCHANGED uiVars

\* the frame callback of the scroller
FrameStack ==
  \E dt \in DtSet :
    /\ Set(frame(Begin, dt))
    /\ lastOp' = "frame"
    /\ entry' = EntryAfter(frame(Begin, dt), FALSE)
    /\ heldFrom' = IF frame(Begin, dt).zSmoothed = zSmoothed THEN centerIndex ELSE Null
    /\ UNCHANGED <<ops, goal, asked>>
    /\ UNCHANGED motionVars

FrameTick ==
  /\ FrameStack
  /\ UNCHANGED uiVars

\* goal: the card a goTo made with the scroll element available asked for
GoTo ==
  \E i \in IdxArgs :
    Input(goTo(Begin, i), "goTo", FALSE, IF elAvail THEN clampIndex(i) ELSE Null)

GoToAndStage ==
  \E a \in StageArgs :
    Input(goToAndStage(Begin, a[1], a[2]), "goToAndStage", TRUE, Null)

GoToRangeAndStage ==
  \E a \in RangeArgs :
    Input(goToRangeAndStage(Begin, a[1], a[2], a[3]), "goToRangeAndStage", TRUE, Null)

GoToGroupAndStage ==
  \E a \in RangeArgs :
    InputAsk(goToGroupAndStage(Begin, a[1], a[2], a[3]), "goToGroupAndStage",
             TRUE, Null, Asked(a[1], a[2], a[3]))

ClearStage == Input(clearStage(Begin), "clearStage", TRUE, Null)

SetAutoScroll ==
  \E v \in AutoVelArgs : Input(setAutoScroll(Begin, v), "setAutoScroll", FALSE, Null)

StopAutoScroll == Input(stopAutoScroll(Begin), "stopAutoScroll", FALSE, Null)

\* the result r of a click on card index, the click itself recorded
Clicked(r, index) ==
  [r EXCEPT !.calls = @ \cup {[op |-> "click", mode |-> ModeOf(r),
                               index |-> index, gap |-> r.stageGap]}]

CardClick ==
  \E i \in Indices :
    Input(Clicked(handleClick(Begin, i), i), "cardClick", FALSE, Null)

BackgroundClick == Input(backgroundClick(Begin), "backgroundClick", TRUE, Null)

ArrowKey == \E step \in {0 - 1, 1} : Input(onKey(Begin, step), "arrowKey", FALSE, Null)

\* a wheel or touch-move event that scrolls though a card is expanded
onWheelUnblocked(s, p) == [s EXCEPT !.scroll = p]

\* a wheel or touch-move event that would scroll the host element to p:
\* the listeners prevent it while a card is expanded
onWheel(s, p) == IF s.expandedIndex # Null THEN s ELSE [s EXCEPT !.scroll = p]

\* wheel / touch scrolling of the host element
UserScroll ==
  /\ elAvail
  /\ \E z2 \in ScrollTargets(Cur) :
       LET zTop == zTopOf(Cur)
           zBottom == zBottomOf(Cur)
           num == Clamp(2 * zTop - z2, 0, 2 * (zTop - zBottom))
       IN  Input(onWheel(Begin, Frac(num, 2 * (zTop - zBottom))),
                 "userScroll", FALSE, Null)

Next ==
  \/ MountScrollEl
  \/ FrameTick
  \/ GoTo
  \/ GoToAndStage
  \/ GoToRangeAndStage
  \/ GoToGroupAndStage
  \/ ClearStage
  \/ SetAutoScroll
  \/ StopAutoScroll
  \/ CardClick
  \/ BackgroundClick
  \/ ArrowKey
  \/ UserScroll

Spec == Init /\ [][Next]_vars

\* ----------------------------------------- runs that start with a stage
\* the record of the initial state
InitRec ==
  [elAvail |-> FALSE, scroll |-> <<0, 1>>, autoVel |-> 0, zSmoothed |-> 0,
   centerIndex |-> 0, centerPrev |-> Null, stagedIndex |-> Null, stageGap |-> 0,
   stagedRangeStart |-> Null, stagedRangeEnd |-> Null, stagedRangeSpan |-> 0,
   followRange |-> FALSE, groupGapsActive |-> FALSE, focusGroup |-> 0,
   expandedIndex |-> Null, lastExpandedIndex |-> Null, expandedSwitchLock |-> 0,
   navLock |-> 0, pendingStageIndex |-> Null, pendingStageGap |-> 200,
   pendingStageRange |-> NoPendingRange, prevStageGap |-> 0,
   prevGroupGapsActive |-> FALSE, prevStagedIndex |-> Null,
   prevRangeStart |-> Null, prevRangeEnd |-> Null, lastEmittedCenter |-> 0,
   calls |-> {}, emits |-> {}]

\* the variables hold the record r
Is(r) ==
  /\ elAvail = r.elAvail
  /\ scroll = r.scroll
  /\ autoVel = r.autoVel
  /\ zSmoothed = r.zSmoothed
  /\ centerIndex = r.centerIndex
  /\ centerPrev = r.centerPrev
  /\ stagedIndex = r.stagedIndex
  /\ stageGap = r.stageGap
  /\ stagedRangeStart = r.stagedRangeStart
  /\ stagedRangeEnd = r.stagedRangeEnd
  /\ stagedRangeSpan = r.stagedRangeSpan
  /\ followRange = r.followRange
  /\ groupGapsActive = r.groupGapsActive
  /\ focusGroup = r.focusGroup
  /\ expandedIndex = r.expandedIndex
  /\ lastExpandedIndex = r.lastExpandedIndex
  /\ expandedSwitchLock = r.expandedSwitchLock
  /\ navLock = r.navLock
  /\ pendingStageIndex = r.pendingStageIndex
  /\ pendingStageGap = r.pendingStageGap
  /\ pendingStageRange = r.pendingStageRange
  /\ prevStageGap = r.prevStageGap
  /\ prevGroupGapsActive = r.prevGroupGapsActive
  /\ prevStagedIndex = r.prevStagedIndex
  /\ prevRangeStart = r.prevRangeStart
  /\ prevRangeEnd = r.prevRangeEnd
  /\ lastEmittedCenter = r.lastEmittedCenter
  /\ calls = r.calls
  /\ emits = r.emits

\* the first operation of such a run: a stage request of the facade, made
\* with the scroll element there or, for the group gaps, before it is
FirstOps ==
  LET mounted == [InitRec EXCEPT !.elAvail = TRUE]
  IN  {<<"goToAndStage", goToAndStage(mounted, 2, 200)>>,
       <<"goToGroupAndStage", goToGroupAndStage(mounted, NPlanes + 1, 3, 200)>>,
       <<"goToRangeAndStage", goToRangeAndStage(mounted, 0, 0, 200)>>,
       <<"goToRangeAndStage", goToRangeAndStage(InitRec, NPlanes + 1, 3, 200)>>}

InitStaged ==
  /\ \E f \in FirstOps : Is(f[2]) /\ lastOp = f[1]
  /\ ops = 0
  /\ entry = NoEntry
  /\ goal = Null
  /\ heldFrom = Null
  /\ asked = IF lastOp = "goToGroupAndStage" THEN Asked(NPlanes + 1, 3, 200)
             ELSE NoAsk
  /\ mZ = 0
  /\ mTarget = 0
  /\ mDt = 0
  /\ mStart = 0
  /\ mTicks = 0
  /\ InitUi

\* runs that start with the request for a group, made with the scroll
\* element there
InitStagedGroup ==
  /\ InitStaged
  /\ lastOp = "goToGroupAndStage"

\* the operations of the mounted stack
NextMounted ==
  \/ FrameTick
  \/ GoTo
  \/ GoToAndStage
  \/ GoToRangeAndStage
  \/ GoToGroupAndStage
  \/ ClearStage
  \/ SetAutoScroll
  \/ StopAutoScroll
  \/ CardClick
  \/ BackgroundClick
  \/ ArrowKey
  \/ UserScroll

SpecStaged == InitStagedGroup /\ [][NextMounted]_vars

\* ------------------------------- scrolling around the midpoints of cards
\* half the width of the band of depths around a midpoint that the user
\* scrolls to, in depth units: below 0.15 of the spacing
BandReach == 2

\* twice the depths of that band, the midpoint itself left out
BandTargets(s) ==
  {zOfIndex(s, i) + zOfIndex(s, i + 1) + 2 * d :
     i \in 0 .. (MaxIdx - 1), d \in ((0 - BandReach) .. BandReach) \ {0}}

\* wheel / touch scrolling of the host element to a depth of the band
BandScroll ==
  /\ elAvail
  /\ \E z2 \in BandTargets(Cur) :
       LET zTop == zTopOf(Cur)
           zBottom == zBottomOf(Cur)
           num == Clamp(2 * zTop - z2, 0, 2 * (zTop - zBottom))
       IN  Input(onWheel(Begin, Frac(num, 2 * (zTop - zBottom))),
                 "userScroll", FALSE, Null)

\* the mounted stack, nothing staged
InitMounted ==
  /\ Is([InitRec EXCEPT !.elAvail = TRUE])
  /\ lastOp = "mount"
  /\ ops = 0
  /\ entry = NoEntry
  /\ goal = Null
  /\ heldFrom = Null
  /\ asked = NoAsk
  /\ mZ = 0
  /\ mTarget = 0
  /\ mDt = 0
  /\ mStart = 0
  /\ mTicks = 0

InitBand ==
  /\ InitMounted
  /\ InitUi

NextBand == FrameTick \/ BandScroll

SpecBand == InitBand /\ [][NextBand]_vars

\* --------------------------- runs of card clicks, arrow keys and frames
\* from the mounted stack or from a first stage request
InitKeys == InitBand \/ InitStaged

NextKeys == FrameTick \/ CardClick \/ ArrowKey

SpecKeys == InitKeys /\ [][NextKeys]_vars

\* ------------------------------------------ direct calls of the context
\* StackContext hands stageAt and stageRangeAt to every consumer
CtxStageArgs == {<<0 - 1, 200>>, <<NPlanes, 200>>}
CtxRangeArgs == {<<0, 1, 200, TRUE>>, <<NPlanes + 1, 0 - 1, 200, FALSE>>}

StageAtCall ==
  \E a \in CtxStageArgs : Input(stageAt(Begin, a[1], a[2]), "stageAt", TRUE, Null)

StageRangeAtCall ==
  \E a \in CtxRangeArgs :
    Input(stageRangeAt(Begin, a[1], a[2], a[3], a[4]), "stageRangeAt", TRUE, Null)

NextCtx ==
  \/ Next
  \/ StageAtCall
  \/ StageRangeAtCall

SpecCtx == Init /\ [][NextCtx]_vars

\* ------------------------------------------------- the hybrid controller
MaxMotionDepth == 50
MotionDepths == {0 - d : d \in 0 .. MaxMotionDepth}
MotionDts == {16, 50, 200, 1000}

\* the controller alone: any start, a constant target, a fixed dt
InitMotion ==
  /\ InitStack
  /\ mZ \in MotionDepths
  /\ mTarget \in MotionDepths
  /\ mDt \in MotionDts
  /\ mStart = mZ
  /\ mTicks = 0
  /\ InitUi

\* one frame tick of the controller; at the target it changes nothing
MotionStep ==
  /\ mZ # mTarget
  /\ mZ' = integrate(mZ, mTarget, mDt)
  /\ mTicks' = mTicks + 1
  /\ UNCHANGED <<mTarget, mDt, mStart>>
  /\ UNCHANGED uiVars
  /\ UNCHANGED <<elAvail, scroll, autoVel, zSmoothed,
                 centerIndex, centerPrev, stagedIndex, stageGap,
                 stagedRangeStart, stagedRangeEnd, stagedRangeSpan, followRange,
                 groupGapsActive, focusGroup, expandedIndex, lastExpandedIndex,
                 expandedSwitchLock, navLock, pendingStageIndex, pendingStageGap,
                 pendingStageRange, prevStageGap, prevGroupGapsActive, prevStagedIndex,
                 prevRangeStart, prevRangeEnd, lastEmittedCenter, calls,
                 emits, lastOp, ops, entry, goal, heldFrom, asked>>

NextMotion == MotionStep

SpecMotion == InitMotion /\ [][NextMotion]_vars

TypeOK ==
  /\ centerIndex \in Indices
  /\ navLock \in 0 .. NAV_LOCK_FRAMES
  /\ expandedSwitchLock \in 0 .. SWITCH_LOCK_FRAMES


\* ================================================================= claims
OnlyMode(single, range, groups) ==
  [single |-> single, range |-> range, groups |-> groups]

\* C1: right after every call of stageAt, stageRangeAt or the all-groups
\* activation of goToRangeAndStage, exactly one of the three stage modes is
\* on: the one the call activates, the other two being off.
C1_ModeExclusivity ==
  \A c \in calls :
    /\ c.op = "stageAt" => c.mode = OnlyMode(TRUE, FALSE, FALSE)
    /\ c.op = "stageRangeAt" => c.mode = OnlyMode(FALSE, TRUE, FALSE)
    /\ c.op = "stageAllGroups" => c.mode = OnlyMode(FALSE, FALSE, TRUE)


\* a frame tick changes nothing any more
Settled == \A dt \in DtSet : frame(Begin, dt) = Begin

\* C2: after goTo(i) with the scroll element available, no auto-scroll and
\* no further input, the frame ticks bring Centered Index to clamp(i, 0, N-1):
\* once the ticks change nothing any more, Centered Index is that card.
C2_GoToArrives ==
  (goal # Null /\ elAvail /\ autoVel = 0 /\ Settled) => centerIndex = goal


\* the last handler left Expanded
Collapsed == <<"expanded", Null>> \in emits

\* C3: when group gaps are on with focus group g and stage gap G at
\* Collapsed -> Expanded and no stage request of the facade is made while
\* expanded, then right after Expanded -> Collapsed the group gaps are on
\* again with focus group g and stage gap G and no single index and no
\* range is staged.
C3_GroupsRoundTrip ==
  [][(entry.on /\ entry.groups /\ ~entry.touched /\ expandedIndex' = Null)
       => /\ groupGapsActive'
          /\ focusGroup' = entry.focus
          /\ stageGap' = entry.gap
          /\ stagedIndex' = Null
          /\ stagedRangeStart' = Null
          /\ stagedRangeEnd' = Null]_vars

C3_Witness ==
  /\ Collapsed
  /\ prevGroupGapsActive
  /\ groupGapsActive
  /\ stageGap = 200
  /\ focusGroup = 2
  /\ stagedIndex = Null

\* C10: when at most one stage mode is on at Collapsed -> Expanded (none,
\* single index, fixed range or all groups), then whatever happens while
\* expanded, right after Expanded -> Collapsed the staged index, the range
\* bounds, the stage gap and the group-gaps flag are those of the entry.
EntryModes ==
  {m \in {"single", "range", "groups"} :
     \/ m = "single" /\ entry.single # Null
     \/ m = "range" /\ entry.rangeStart # Null /\ entry.rangeEnd # Null
     \/ m = "groups" /\ entry.groups}

FiredSingle == \E c \in calls' : c.op = "stageAt"

FixedRangeStaged ==
  /\ ~followRange
  /\ stagedRangeStart # Null
  /\ stagedRangeEnd # Null
  /\ stageGap > 0

OutsideRange(c) == c < stagedRangeStart \/ c > stagedRangeEnd

StageCleared ==
  /\ stagedIndex = Null
  /\ stagedRangeStart = Null
  /\ stagedRangeEnd = Null
  /\ ~groupGapsActive
  /\ stageGap = 0

HeldAtMidpoint(k) ==
  /\ navLock = 0
  /\ navLock' = 0
  /\ zSmoothed' = zSmoothed
  /\ centerIndex \in {k, k + 1}
  /\ 2 * zSmoothed = zOfIndex(Cur, k) + zOfIndex(Cur, k + 1)
  /\ 2 * zSmoothed = zOfIndex(Cur', k) + zOfIndex(Cur', k + 1)
  /\ nearestIndex(Cur') = k

C8_ClearStage ==
  [][ClearStage
       => /\ StageCleared'
          /\ centerIndex' = centerIndex
          /\ IF groupGapsActive
             THEN zSmoothed' = 0 - centerIndex * Gap /\ navLock' = NAV_LOCK_FRAMES
             ELSE zSmoothed' = zSmoothed /\ navLock' = navLock]_vars

C8_Witness ==
  /\ lastOp = "clearStage"
  /\ StageCleared
  /\ navLock = NAV_LOCK_FRAMES
  /\ centerIndex = MaxIdx
  /\ zSmoothed = 0 - MaxIdx * Gap
  /\ scroll # <<0, 1>>


TickBound(d, dt) ==
  CeilDiv(d, (Gap * CARD_MAX_SPD * dt) \div 1000) + (Gap * CARD_FAR_THOLD) \div 10 + 1

\* C7: with a constant target and a fixed dt > 0, a tick of the controller
\* does not increase |target - current|, does not take current past the
\* target, and current equals the target after a bounded number of ticks.
C7_MotionConverges ==
  [][MotionStep
       => /\ Abs(mTarget - mZ') <= Abs(mTarget - mZ)
          /\ (mZ <= mTarget => mZ' <= mTarget)
          /\ (mZ >= mTarget => mZ' >= mTarget)
          /\ mTicks' <= TickBound(Abs(mTarget - mStart), mDt)]_vars

C7_Witness ==
  /\ mZ = mTarget
  /\ mStart = 0 - MaxMotionDepth
  /\ mTarget = 0
  /\ mDt = 16
  /\ mTicks > 3

\* C9: after every stage operation, whatever integers it was called with,
\* the staged index, the staged range bounds and the pending stage targets
\* lie in 0 .. N-1 and a range is stored with start <= end.
C9_ArgumentsClamped ==
  /\ stagedIndex \in Indices \cup {Null}
  /\ stagedRangeStart # Null =>
       (stagedRangeStart \in Indices /\ stagedRangeEnd \in Indices
          /\ stagedRangeStart <= stagedRangeEnd)
  /\ pendingStageIndex \in Indices \cup {Null}
  /\ pendingStageRange # NoPendingRange =>
       /\ pendingStageRange.start \in Indices
       /\ pendingStageRange.end \in Indices
       /\ pendingStageRange.start <= pendingStageRange.end
       /\ pendingStageRange.triggerAt \in Indices


\* C11: onCenterChange is called only in a frame tick and only with a
\* centered index that differs from the last value emitted, and
\* onExpandedChange is called only with a value that differs from the
\* expanded index before the handler.
C11_ObserversOnTransitions ==
  [][\A e \in emits' :
       /\ e[1] = "center" =>
            (lastOp' = "frame" /\ e[2] = centerIndex' /\ e[2] # lastEmittedCenter)
       /\ e[1] = "expanded" => e[2] # expandedIndex]_vars


\* the step enters Expanded from Collapsed
EntersExpanded == expandedIndex = Null /\ expandedIndex' # Null

\* the step switches the expanded index while expanded
SwitchesExpanded ==
  expandedIndex # Null /\ expandedIndex' # Null /\ expandedIndex' # expandedIndex

\* C12 as stated: entering Expanded and switching the expanded index both
\* set the switch lock to 4; a frame tick decreases it by one down to 0.
C12_LockOnEnterAndSwitch ==
  [][/\ (EntersExpanded \/ SwitchesExpanded) => expandedSwitchLock' = SWITCH_LOCK_FRAMES
     /\ FrameTick => expandedSwitchLock' = Max(0, expandedSwitchLock - 1)
     /\ expandedSwitchLock' >= 0]_vars

\* C12: an arrow key pressed while expanded sets the switch lock to 4, also
\* when the clamped index does not change; entering Expanded from Collapsed
\* and every other input leave the counter as it is; a frame tick decreases
\* a positive counter by one, and the counter is never below 0.
C12_LockOnArrowKey ==
  [][/\ (lastOp' = "arrowKey" /\ expandedIndex # Null)
          => expandedSwitchLock' = SWITCH_LOCK_FRAMES
     /\ (lastOp' # "frame" /\ ~(lastOp' = "arrowKey" /\ expandedIndex # Null))
          => expandedSwitchLock' = expandedSwitchLock
     /\ FrameTick => expandedSwitchLock' = Max(0, expandedSwitchLock - 1)
     /\ expandedSwitchLock' \in 0 .. SWITCH_LOCK_FRAMES]_vars

C12_Witness ==
  /\ lastOp = "frame"
  /\ expandedSwitchLock = SWITCH_LOCK_FRAMES - 1
  /\ expandedIndex = 1
  /\ lastExpandedIndex = 0


\* only the group gaps are staged, with a positive stage gap
OnlyGroupsStaged ==
  /\ groupGapsActive
  /\ stageGap > 0
  /\ stagedIndex = Null
  /\ stagedRangeStart = Null
  /\ stagedRangeEnd = Null

\* the index of the group that holds card i, if one does
InGroup(i, gi) ==
  /\ gi \in 1 .. Len(GROUP_RANGES)
  /\ GROUP_RANGES[gi][1] <= i
  /\ i <= GROUP_RANGES[gi][2]

\* C13: while only the group gaps are staged, with focus group f and stage
\* gap G > 0, the scroll mapping, the center resolver and the card use the
\* same offset for card i: (group of i - f) * max(0, G - spacing), which is
\* 0 for the cards of the focus group and for a card of no group.
C13_GroupOffsetsAgree ==
  OnlyGroupsStaged =>
    \A i \in Indices :
      /\ stageOffsetForIndex(Cur, i) = cardStageOffset(Cur, i)
      /\ zOfIndex(Cur, i) = 0 - (i * Gap + cardStageOffset(Cur, i))
      /\ \A gi \in 1 .. Len(GROUP_RANGES) :
           InGroup(i, gi) =>
             cardStageOffset(Cur, i) = (gi - 1 - focusGroup) * Max(0, stageGap - Gap)
      /\ (\A gi \in 1 .. Len(GROUP_RANGES) : ~InGroup(i, gi))
           => cardStageOffset(Cur, i) = 0
      /\ InGroup(i, focusGroup + 1) => cardStageOffset(Cur, i) = 0

C13_Witness ==
  /\ OnlyGroupsStaged
  /\ focusGroup = 2
  /\ stageGap = 200
  /\ expandedIndex = Null
  /\ lastOp = "frame"
  /\ cardStageOffset(Cur, 0) = 0 - 2 * (200 - Gap)
  /\ zOfIndex(Cur, 1) = (200 - Gap) - Gap

\* C14: with d = max(0, stage gap - spacing), a card i gets the offset -d
\* before, +d after and 0 inside a staged range [a, b], and, when no range
\* is staged, -d before, +d after and 0 at a staged single index.
C14_SingleAndRangeOffsets ==
  LET d == Max(0, stageGap - Gap)
  IN  \A i \in Indices :
        /\ (stagedRangeStart # Null /\ stagedRangeEnd # Null) =>
             /\ i < stagedRangeStart => cardStageOffset(Cur, i) = 0 - d
             /\ i > stagedRangeEnd => cardStageOffset(Cur, i) = d
             /\ (stagedRangeStart <= i /\ i <= stagedRangeEnd) => cardStageOffset(Cur, i) = 0
        /\ (stagedRangeStart = Null /\ stagedRangeEnd = Null /\ stagedIndex # Null) =>
             /\ i < stagedIndex => cardStageOffset(Cur, i) = 0 - d
             /\ i > stagedIndex => cardStageOffset(Cur, i) = d
             /\ i = stagedIndex => cardStageOffset(Cur, i) = 0

C14_Witness ==
  /\ stagedRangeStart = Null
  /\ stagedRangeEnd = Null
  /\ stagedIndex = 2
  /\ stageGap = 200
  /\ cardStageOffset(Cur, 0) = 0 - (200 - Gap)
  /\ cardStageOffset(Cur, MaxIdx) = 200 - Gap


\* C15: right after a step from Expanded to Collapsed no deferred single
\* index and no deferred range is pending, the nav lock is 2 and the
\* centered index is the one before the step.
C15_LeavingExpanded ==
  [][(expandedIndex # Null /\ expandedIndex' = Null)
       => /\ pendingStageIndex' = Null
          /\ pendingStageRange' = NoPendingRange
          /\ navLock' = NAV_LOCK_FRAMES
          /\ centerIndex' = centerIndex]_vars

C15_Witness ==
  /\ Collapsed
  /\ lastOp = "backgroundClick"
  /\ expandedIndex = Null
  /\ navLock = NAV_LOCK_FRAMES
  /\ pendingStageIndex = Null
  /\ pendingStageRange = NoPendingRange
  /\ centerIndex = MaxIdx


\* the fields the claims call the core state: everything but the call and
\* callback history
coreVars ==
  <<scroll, autoVel, zSmoothed, centerIndex, centerPrev, stagedIndex, stageGap,
    stagedRangeStart, stagedRangeEnd, stagedRangeSpan, followRange,
    groupGapsActive, focusGroup, expandedIndex, lastExpandedIndex,
    expandedSwitchLock, navLock, pendingStageIndex, pendingStageGap,
    pendingStageRange, prevStageGap, prevGroupGapsActive, prevStagedIndex,
    prevRangeStart, prevRangeEnd, lastEmittedCenter>>

\* C16: while the scroll element is not there, goTo, goToAndStage,
\* goToRangeAndStage and goToGroupAndStage leave the core state unchanged.
C16_NoElementNoEffect ==
  [][(~elAvail /\ lastOp' \in {"goTo", "goToAndStage", "goToRangeAndStage",
                               "goToGroupAndStage"})
       => UNCHANGED coreVars]_vars

\* C17: the keyboard handler does not write the centered index, the nav
\* lock or the switch lock; the operations of the scroller that it calls,
\* centerOn and setExpandedIndex with an index, leave the three alone, so
\* they are the same after an arrow key as before.
C17_KeyboardWritesNothing ==
  [][lastOp' = "arrowKey" => UNCHANGED <<centerIndex, navLock, expandedSwitchLock>>]_vars

\* C18: while a card is expanded the scroll position changes only in a
\* step that calls centerOn: no wheel or touch event and no auto-scroll
\* velocity moves it.
C18_ScrollFrozenWhileExpanded ==
  [][(expandedIndex # Null /\ scroll' # scroll)
       => \E c \in calls' : c.op = "scrollTo"]_vars

C18_Witness ==
  /\ expandedIndex # Null
  /\ elAvail
  /\ autoVel > 0
  /\ lastOp = "frame"
  /\ heldFrom # Null
  /\ scroll = <<0, 1>>

\* C19: at most one deferred stage request is pending: never a pending
\* index together with a pending range, and right after clearStage neither
\* of the two is pending.
C19_SinglePendingRequest ==
  [][/\ ~(pendingStageIndex' # Null /\ pendingStageRange' # NoPendingRange)
     /\ lastOp' = "clearStage"
          => (pendingStageIndex' = Null /\ pendingStageRange' = NoPendingRange)]_vars

\* the range asked for is staged: fixed, not following, nothing else on
AskedStaged ==
  /\ stagedIndex = Null
  /\ stagedRangeStart = asked.start
  /\ stagedRangeEnd = asked.end
  /\ stageGap = asked.gap
  /\ ~followRange
  /\ ~groupGapsActive

\* the request of goToGroupAndStage has not fired yet
AskedPending ==
  /\ asked # NoAsk
  /\ pendingStageRange # NoPendingRange

\* the safety part of C20: goToGroupAndStage leaves no stage mode active;
\* a frame tick that starts with the request pending and Centered Index
\* = s stages the fixed range [s, e] with gap max(0, gap) and drops the
\* request, any other tick leaves stage and request alone; once staged the
\* range stays through every tick that starts with Centered Index in [s, e]
C20_StagesOnArrival ==
  [][/\ lastOp' = "goToGroupAndStage" => (StageCleared' /\ AskedPending')
     /\ (AskedPending /\ lastOp' = "frame")
          => IF centerIndex = asked.start
             THEN AskedStaged' /\ pendingStageRange' = NoPendingRange
             ELSE StageCleared' /\ pendingStageRange' = pendingStageRange
     /\ (asked # NoAsk /\ AskedStaged /\ lastOp' = "frame"
         /\ centerIndex >= asked.start /\ centerIndex <= asked.end)
          => AskedStaged']_vars

\* C20 with no earlier goToAndStage request left pending: the same three
\* statements, for ticks that start with no pending index and no stage.
C20_StagesOnArrivalAlone ==
  [][/\ lastOp' = "goToGroupAndStage" => (StageCleared' /\ AskedPending')
     /\ (AskedPending /\ pendingStageIndex = Null /\ StageCleared /\ lastOp' = "frame")
          => IF centerIndex = asked.start
             THEN AskedStaged' /\ pendingStageRange' = NoPendingRange
             ELSE StageCleared' /\ pendingStageRange' = pendingStageRange
     /\ (asked # NoAsk /\ AskedStaged /\ lastOp' = "frame"
         /\ centerIndex >= asked.start /\ centerIndex <= asked.end)
          => AskedStaged']_vars


\* C20, the arrival: with the scroll element available and no auto-scroll,
\* once the frame ticks that follow goToGroupAndStage change nothing any
\* more the request has fired.
C20_Happens ==
  (asked # NoAsk /\ elAvail /\ autoVel = 0 /\ Settled)
    => pendingStageRange = NoPendingRange

\* the snapshot taken on entering Expanded
snapshotVars ==
  <<prevStageGap, prevGroupGapsActive, prevStagedIndex, prevRangeStart, prevRangeEnd>>

\* C21: a handler that calls setExpandedIndex(j), j not null, while an item
\* is expanded leaves the five snapshot fields and the stage gap unchanged.
C21_SnapshotOnRisingEdge ==
  [][(expandedIndex # Null /\ expandedIndex' # Null
      /\ <<"expanded", expandedIndex'>> \in emits')
       => UNCHANGED <<snapshotVars, stageGap>>]_vars

C21_Witness ==
  /\ lastOp = "arrowKey"
  /\ expandedIndex # Null
  /\ lastExpandedIndex # Null
  /\ lastExpandedIndex # expandedIndex
  /\ <<"expanded", expandedIndex>> \in emits
  /\ stageGap = STAGE_GAP_WHEN_EXPANDED
  /\ prevStageGap > 0

\* C22: the nav lock stays within 0..2; a frame tick whose center-resolver
\* step starts with the lock above 0 keeps Centered Index and lowers the
\* lock by exactly 1, and a tick changes Centered Index only when that
\* step starts with the lock at 0.
C22_NavLockHolds ==
  [][/\ navLock' \in 0 .. NAV_LOCK_FRAMES
     /\ lastOp' = "frame" =>
          \E dt \in DtSet :
            LET b == beforeCenter(Begin, dt)
            IN  /\ b.centerIndex = centerIndex
                /\ b.navLock > 0 => (centerIndex' = centerIndex
                                     /\ navLock' = b.navLock - 1)
                /\ centerIndex' # centerIndex => (b.navLock = 0 /\ navLock' = 0)]_vars

\* a tick ends with the lock counted down to 0 and the center held although
\* the depth is already nearest to another card
C22_Witness ==
  /\ lastOp = "frame"
  /\ navLock = 0
  /\ heldFrom = centerIndex
  /\ nearestIndex(Cur) # centerIndex
  /\ ~withinHysteresis(Abs(zSmoothed - zOfIndex(Cur, centerIndex)))

\* depth z is off the midpoint between cards k and k + 1 of state s by less
\* than 0.15 of the spacing; side: -1 towards k, 1 towards k + 1, 0 on it
InBand(s, z, k) ==
  Abs(2 * z - (zOfIndex(s, k) + zOfIndex(s, k + 1))) * 100 < 2 * 15 * Gap

SideOf(s, z, k) == Sign((zOfIndex(s, k) + zOfIndex(s, k + 1)) - 2 * z)

\* C23: a frame tick that takes Current Depth across the midpoint between
\* k and k + 1, from one point of the band around it to another, leaves
\* Centered Index as it was.
C23_NoFlipInBand ==
  [][\A k \in 0 .. (MaxIdx - 1) :
       (/\ lastOp' = "frame"
        /\ centerIndex \in {k, k + 1}
        /\ zOfIndex(Cur', k) = zOfIndex(Cur, k)
        /\ zOfIndex(Cur', k + 1) = zOfIndex(Cur, k + 1)
        /\ InBand(Cur, zSmoothed, k)
        /\ InBand(Cur, zSmoothed', k)
        /\ SideOf(Cur, zSmoothed, k) * SideOf(Cur, zSmoothed', k) = 0 - 1)
       => centerIndex' = centerIndex]_vars

\* C24: in every reachable state Centered Index is one of 0 .. N-1.
C24_CenterInRange == centerIndex \in 0 .. (NPlanes - 1)

\* an arrow key pressed at the last card, and a tick that resolved the
\* center there
C24_Witness ==
  /\ lastOp = "arrowKey"
  /\ expandedIndex = NPlanes - 1
  /\ lastExpandedIndex = NPlanes - 1
  /\ centerIndex = NPlanes - 1
  /\ centerPrev = NPlanes - 1
  /\ lastEmittedCenter = NPlanes - 1

\* C25: an arrow key pressed while item i is expanded makes the expanded
\* index clamp(i + 1) or clamp(i - 1); pressed while nothing is expanded it
\* changes no core state.
C25_ArrowSteps ==
  [][lastOp' = "arrowKey" =>
       IF expandedIndex = Null THEN UNCHANGED coreVars
       ELSE expandedIndex' \in {clampIndex(expandedIndex + 1),
                                clampIndex(expandedIndex - 1)}]_vars

\* C26: in every state reached by card clicks, arrow keys and frame ticks
\* in which an item is expanded, Centered Index is the expanded index.
C26_ExpandedIsCentered == expandedIndex # Null => centerIndex = expandedIndex

\* a stage is open for card i: it is the single staged index, or a range
\* is staged, or the group gaps are on
StageOpenFor(i) ==
  \/ stagedIndex = i
  \/ stagedRangeStart # Null /\ stagedRangeEnd # Null
  \/ groupGapsActive

stageModeVars ==
  <<stagedIndex, stageGap, stagedRangeStart, stagedRangeEnd, stagedRangeSpan,
    followRange, groupGapsActive, focusGroup>>

\* C27: a click on the expanded card collapses it; a click on another card
\* i enters Expanded(i) only if i is Centered Index and a stage is open for
\* it; if i is not centered the click changes neither the stage nor the
\* expanded index; if i is centered and no stage is open for it the click
\* stages i as single index with gap 2 and leaves the expanded index alone.
C27_ClickProgression ==
  [][lastOp' = "cardClick" =>
       \A c \in calls' :
         c.op = "click" =>
           LET i == c.index
           IN  IF expandedIndex = i THEN expandedIndex' = Null
               ELSE /\ expandedIndex' = i => (centerIndex = i /\ StageOpenFor(i))
                    /\ centerIndex # i => UNCHANGED <<stageModeVars, expandedIndex>>
                    /\ (centerIndex = i /\ ~StageOpenFor(i)) =>
                         /\ stagedIndex' = i
                         /\ stageGap' = CARD_STAGE_GAP_ABS
                         /\ stagedRangeStart' = Null
                         /\ stagedRangeEnd' = Null
                         /\ ~groupGapsActive'
                         /\ expandedIndex' = expandedIndex]_vars

\* the centered card was clicked with a single-index stage on it and is
\* expanded now
C27_Witness ==
  /\ lastOp = "cardClick"
  /\ expandedIndex # Null
  /\ ~groupGapsActive
  /\ stagedRangeStart = Null
  /\ prevStagedIndex = expandedIndex
  /\ [op |-> "click", mode |-> OnlyMode(TRUE, FALSE, FALSE),
      index |-> expandedIndex, gap |-> STAGE_GAP_WHEN_EXPANDED] \in calls

\* C28: in every reachable state in which an item is expanded the stage
\* gap is the expanded gap.
C28_ExpandedGap == expandedIndex # Null => stageGap = STAGE_GAP_WHEN_EXPANDED

\* no deferred stage request fires in the step
NoStageCall == \A c \in calls' : c.op \notin {"stageAt", "stageRangeAt"}

\* C29: a frame tick that ends with a single index staged and a stage gap
\* above 0 ends with that index equal to Centered Index, and a tick that
\* starts with such a stage and fires no deferred request does not end
\* without it.
C29_SingleFollowsCenter ==
  [][lastOp' = "frame" =>
       /\ (stagedIndex' # Null /\ stageGap' > 0) => stagedIndex' = centerIndex'
       /\ (stagedIndex # Null /\ stageGap > 0 /\ NoStageCall)
            => (stagedIndex' # Null /\ stageGap' > 0)]_vars

\* a range is staged with follow on and a stage gap above 0
FollowRangeStaged ==
  /\ followRange
  /\ stagedRangeStart # Null
  /\ stagedRangeEnd # Null
  /\ stageGap > 0

C31_DepthOrderUnderGroupGaps ==
  (groupGapsActive /\ stageGap > Gap /\ Gap > 0) =>
    \A i, j \in Indices : i < j => zOfIndex(Cur, j) < zOfIndex(Cur, i)

\* C32: after a click on the background no item is expanded and no stage
\* mode is active: no single index, no range, no group gaps, stage gap 0.
C32_BackgroundClickClearsAll ==
  [][lastOp' = "backgroundClick" => (expandedIndex' = Null /\ StageCleared')]_vars


\* ------------------------------------------- the ends of the scroll range
\* scroll offsets near the two ends, in thousandths of the range (one step
\* below 0 and one above 1 are elastic overscroll), and half a pixel from
\* either end
SnapGrid == 1000
SnapReach == 6
SnapRaws ==
  {IF k = 0 THEN <<0, 1>> ELSE IF k < 0 THEN <<k, SnapGrid>> ELSE Frac(k, SnapGrid) :
     k \in ((0 - 1) .. SnapReach) \cup ((SnapGrid - SnapReach) .. (SnapGrid + 1))}
    \cup {<<1, 2 * ScrollMax>>, <<2 * ScrollMax - 1, 2 * ScrollMax>>}

\* wheel / touch scrolling of the host element to an offset near an end
SnapScroll ==
  /\ elAvail
  /\ \E raw \in SnapRaws : Input(onWheel(Begin, raw), "userScroll", FALSE, Null)

NextSnap == FrameTick \/ SnapScroll

SpecSnap == InitBand /\ [][NextSnap]_vars

\* the fallback of the snap threshold, 0.995, in thousandths
SnapFallback == 995

\* the scroll offset is strictly inside the range, within the tolerance
\* 1 - 0.995 of an end
NearEnd ==
  LET n == scroll[1]
      d == scroll[2]
  IN  /\ 0 < n
      /\ n < d
      /\ \/ n * SnapGrid < (SnapGrid - SnapFallback) * d
         \/ n * SnapGrid > SnapFallback * d

AtBoundary(p) == p = <<0, 1>> \/ p = <<1, 1>>
InUnitInterval(p) == 0 <= p[1] /\ p[1] <= p[2] /\ p[2] > 0

\* C33: a progress within the tolerance of a boundary is forced to exactly 0
\* or exactly 1, and the progress after the adapter step is within [0,1].
C33_SnapForcesBoundary ==
  /\ InUnitInterval(scrollSignal(Cur))
  /\ NearEnd => AtBoundary(scrollSignal(Cur))

\* the progress after the adapter step is within [0,1], and it is exactly 0 or
\* 1 within one pixel of a physical end of the scroll element
C33_ProgressInUnitInterval == InUnitInterval(scrollSignal(Cur))
C33_PhysicalEndsForce ==
  (elAvail /\ (scroll[1] * ScrollMax <= scroll[2]
               \/ Abs(scroll[2] - scroll[1]) * ScrollMax <= scroll[2]))
    => AtBoundary(scrollSignal(Cur))
\* with the threshold 1.5 the adapter never moves a progress that is more than
\* one pixel away from both ends
C33_ThresholdNeverFires ==
  (scroll[1] * ScrollMax > scroll[2] /\ (scroll[2] - scroll[1]) * ScrollMax > scroll[2])
    => scrollSignal(Cur) = scroll


\* -------------------------------------------- the names sheet, selectGroup
\* selectGroup calls of a run
MaxSelect == 2

\* an event of the page that leaves the stack alone
PageStep(op) ==
  /\ Set(Begin)
  /\ lastOp' = op
  /\ UNCHANGED <<ops, entry, goal, heldFrom, asked>>
  /\ UNCHANGED motionVars

\* one selectGroup(start, end) call: waited tells that it found the sheet
\* open on mobile, fired is its local flag, listening its transitionend
\* listener, timer its 500 ms timeout, goes the go() calls it has made
selectGroup(n, start, end) ==
  IF ~n.isMobile \/ ~n.namesOpen
  THEN [start |-> start, end |-> end, waited |-> FALSE, fired |-> FALSE,
        listening |-> FALSE, timer |-> FALSE, by |-> "call",
        goes |-> << <<start, end, STAGE_GAP_WHEN_STAGED>> >>]
  ELSE [start |-> start, end |-> end, waited |-> TRUE, fired |-> FALSE,
        listening |-> TRUE, timer |-> TRUE, by |-> "none", goes |-> <<>>]

\* the transitionend listener of a call (registered with once: true)
onEnd(c) ==
  IF c.fired THEN [c EXCEPT !.listening = FALSE]
  ELSE [c EXCEPT !.fired = TRUE, !.listening = FALSE, !.by = "transitionend",
                 !.goes = Append(@, <<c.start, c.end, STAGE_GAP_WHEN_STAGED>>)]

\* a fallback that does not look at the flag
onFallbackUnguarded(c) ==
  [c EXCEPT !.fired = TRUE, !.listening = FALSE, !.timer = FALSE, !.by = "timer",
            !.goes = Append(@, <<c.start, c.end, STAGE_GAP_WHEN_STAGED>>)]

\* the 500 ms fallback of a call
onFallback(c) ==
  IF c.fired THEN [c EXCEPT !.timer = FALSE]
  ELSE [c EXCEPT !.fired = TRUE, !.listening = FALSE, !.timer = FALSE, !.by = "timer",
                 !.goes = Append(@, <<c.start, c.end, STAGE_GAP_WHEN_STAGED>>)]

\* go(): the stack follows when the call record c2 has one more go() than before
GoIfMade(before, c2, op) ==
  IF Len(c2.goes) > before
  THEN InputStack(goToGroupAndStage(Begin, c2.start, c2.end, STAGE_GAP_WHEN_STAGED),
                  "goToGroupAndStage", TRUE, Null,
                  Asked(c2.start, c2.end, STAGE_GAP_WHEN_STAGED))
  ELSE PageStep(op)

\* a click on a name of the list
SelectGroup ==
  /\ Len(names.sel) < MaxSelect
  /\ \E g \in 1 .. Len(GROUP_RANGES) :
       LET c == selectGroup(names, GROUP_RANGES[g][1], GROUP_RANGES[g][2])
       IN  /\ names' = [names EXCEPT !.sel = Append(@, c),
                                     !.namesOpen = IF c.waited THEN FALSE ELSE @]
           /\ GoIfMade(0, c, "selectGroup")
  /\ UNCHANGED <<loader, textures>>

\* a transitionend event reaches the listener of call k
TransitionEnd ==
  /\ \E k \in 1 .. Len(names.sel) :
       /\ names.sel[k].listening
       /\ names' = [names EXCEPT !.sel[k] = onEnd(@)]
       /\ GoIfMade(Len(names.sel[k].goes), onEnd(names.sel[k]), "transitionend")
  /\ UNCHANGED <<loader, textures>>

\* the timeout of call k expires
FallbackTimer ==
  /\ \E k \in 1 .. Len(names.sel) :
       /\ names.sel[k].timer
       /\ names' = [names EXCEPT !.sel[k] = onFallback(@)]
       /\ GoIfMade(Len(names.sel[k].goes), onFallback(names.sel[k]), "fallbackTimer")
  /\ UNCHANGED <<loader, textures>>

\* useIsMobile: the window is resized across the breakpoint
SetMobile ==
  /\ names' = [names EXCEPT !.isMobile = ~@]
  /\ PageStep("resize")
  /\ UNCHANGED <<loader, textures>>

\* the burger button, shown on mobile while no card is expanded
ToggleNames ==
  /\ names.isMobile
  /\ expandedIndex = Null
  /\ names' = [names EXCEPT !.namesOpen = ~@]
  /\ PageStep("toggleNames")
  /\ UNCHANGED <<loader, textures>>

NextNames ==
  \/ FrameTick
  \/ SetMobile
  \/ ToggleNames
  \/ SelectGroup
  \/ TransitionEnd
  \/ FallbackTimer

SpecNames == InitBand /\ [][NextNames]_vars

\* C34: every selectGroup(start, end) call makes exactly one
\* goToGroupAndStage(start, end, 2) call: within the call on desktop or with
\* the sheet closed, and otherwise at the transitionend event or at the 500 ms
\* timeout, whichever comes first, never at both.
C34_SelectGroupFiresOnce ==
  \A k \in 1 .. Len(names.sel) :
    LET c == names.sel[k]
    IN  /\ Len(c.goes) <= 1
        /\ \A j \in 1 .. Len(c.goes) : c.goes[j] = <<c.start, c.end, STAGE_GAP_WHEN_STAGED>>
        /\ ~c.waited => (Len(c.goes) = 1 /\ c.by = "call")
        /\ (c.waited /\ ~c.timer) => Len(c.goes) = 1
        /\ (c.waited /\ (c.listening /\ c.timer)) => Len(c.goes) = 0
        /\ Len(c.goes) = 1 => ~c.listening

\* a call that waited went at the transitionend event, and its timeout has
\* expired since
C34_Witness ==
  \E k \in 1 .. Len(names.sel) :
    /\ names.sel[k].waited
    /\ names.sel[k].by = "transitionend"
    /\ ~names.sel[k].timer
    /\ Len(names.sel[k].goes) = 1


\* ------------------------------------------- the loading gate and overlay
\* items the loading manager is given in a run
MaxItems == 3

\* setDone(true) of the overlay: a change of the state schedules the effect
setDone(l) == IF l.done THEN l ELSE [l EXCEPT !.done = TRUE, !.effectDue = TRUE]

\* the onDone prop: startGapIntro(600) behind the fired guard
onDone(l) ==
  IF l.fired THEN [l EXCEPT !.onDoneCalls = @ + 1]
  ELSE [l EXCEPT !.onDoneCalls = @ + 1, !.fired = TRUE, !.introStarts = @ + 1]

\* an emit that leaves the overlay on the screen
emitKeepsOverlay(l) ==
  IF l.emitted THEN l
  ELSE onDone([l EXCEPT !.emitted = TRUE])

\* emit of the fade-out effect: onDone once, then setHidden(true), whose
\* render cleans the effect up
emit(l) ==
  IF l.emitted THEN l
  ELSE [onDone([l EXCEPT !.emitted = TRUE]) EXCEPT !.hidden = TRUE, !.listening = FALSE]

\* the fade-out effect
fadeOutEffect(l) ==
  LET r == [l EXCEPT !.effectDue = FALSE]
  IN  IF ~l.done \/ l.hidden \/ l.emitted THEN r
      ELSE IF ~l.hasTransition THEN emit(r)
      ELSE [r EXCEPT !.listening = TRUE]

\* the transitionend listener of the overlay; onEl tells whether the event's
\* target is the overlay itself
overlayOnEnd(l, onEl) ==
  IF ~onEl THEN l ELSE emit([l EXCEPT !.listening = FALSE])

\* the polling interval
poll(l) ==
  IF l.gateDone \/ (l.total > 0 /\ l.loaded >= l.total) THEN setDone(l) ELSE l

\* manager.itemStart: onStart when the manager was idle
itemStart(l) ==
  LET m == [l EXCEPT !.itemsTotal = @ + 1, !.isLoading = TRUE]
  IN  IF l.isLoading THEN m
      ELSE [m EXCEPT !.loaded = m.itemsLoaded, !.total = m.itemsTotal]

\* manager.itemEnd: onProgress, and onLoad when every item has ended; onLoad
\* dispatches assets:loaded, heard by the overlay
itemEnd(l) ==
  LET m == [l EXCEPT !.itemsLoaded = @ + 1]
      g == [m EXCEPT !.loaded = m.itemsLoaded, !.total = m.itemsTotal]
  IN  IF g.itemsLoaded = g.itemsTotal
      THEN setDone([g EXCEPT !.isLoading = FALSE, !.gateDone = TRUE])
      ELSE g

LoaderStep(l2, op) ==
  /\ loader' = l2
  /\ PageStep(op)
  /\ UNCHANGED <<names, textures>>

ItemStart ==
  /\ loader.itemsTotal < MaxItems
  /\ LoaderStep(itemStart(loader), "itemStart")

ItemEnd ==
  /\ loader.itemsLoaded < loader.itemsTotal
  /\ LoaderStep(itemEnd(loader), "itemEnd")

Poll == LoaderStep(poll(loader), "poll")

FadeOutEffect ==
  /\ loader.effectDue
  /\ LoaderStep(fadeOutEffect(loader), "fadeOutEffect")

OverlayTransitionEnd ==
  /\ loader.listening
  /\ \E onEl \in BOOLEAN : LoaderStep(overlayOnEnd(loader, onEl), "overlayTransitionEnd")

\* the page with the overlay up; the style sheet of the overlay may or may
\* not give it a transition
InitLoading ==
  /\ InitMounted
  /\ names = InitNames
  /\ loader \in {InitLoader(h) : h \in BOOLEAN}
  /\ textures = InitTextures

NextLoader ==
  \/ ItemStart
  \/ ItemEnd
  \/ Poll
  \/ FadeOutEffect
  \/ OverlayTransitionEnd


SpecLoader == InitLoading /\ [][NextLoader]_vars

\* the interval keeps polling and React runs the effects it has scheduled;
\* nothing makes the browser deliver a transitionend event
SpecLoaderFair ==
  /\ InitLoading
  /\ [][NextLoader]_vars
  /\ WF_vars(Poll)
  /\ WF_vars(FadeOutEffect)

\* C35: onDone is called at most once, under any interleaving of the
\* assets:loaded event, the polling timer and transitionend events; once it
\* has been called the overlay is hidden and stays hidden, and the done flag
\* of the gate never returns to false.
C35_LoaderCompletesOnce ==
  /\ [](loader.onDoneCalls <= 1 /\ (loader.onDoneCalls = 1 => loader.hidden))
  /\ [][(loader.hidden => loader.hidden') /\ (loader.gateDone => loader.gateDone')]_vars

\* the overlay is gone after one onDone, and the manager has finished a
\* second batch of loads since
C35_Witness ==
  /\ loader.onDoneCalls = 1
  /\ loader.hidden
  /\ loader.gateDone
  /\ loader.itemsLoaded >= 2
  /\ lastOp = "itemEnd"

LoaderReady == loader.gateDone \/ (loader.total > 0 /\ loader.loaded >= loader.total)
LoaderFinished == loader.hidden /\ loader.onDoneCalls >= 1 /\ loader.introStarts >= 1

\* C36: once the gate reports all assets loaded, the overlay is eventually
\* hidden, onDone called and the gap intro started, also when no
\* transitionend event is ever delivered.
C36_LoaderEventuallyFinishes == LoaderReady ~> LoaderFinished

\* an overlay without a transition finishes without any transitionend event
C36_FinishesWithoutTransition == (LoaderReady /\ ~loader.hasTransition) ~> LoaderFinished
\* an overlay with a transition is hidden by nothing but a transitionend event
C36_OnlyTransitionEndHides ==
  [][(loader.hasTransition /\ ~loader.hidden /\ loader.hidden')
       => lastOp' = "overlayTransitionEnd"]_vars


\* ------------------------------------------------ the windowed textures
\* WINDOW_AHEAD = WINDOW_BEHIND (55, on mobile 30), scaled to the stack
TexWindow == 1

\* near: the card is within the window around the centered index
near(center, i) == i >= center - TexWindow /\ i <= center + TexWindow

\* a frame callback that starts a load whenever the card has no texture
useManagedTextureNoRef(x, center, i) ==
  IF near(center, i)
  THEN IF ~x.tex[i]
       THEN [x EXCEPT !.loading[i] = TRUE, !.failed[i] = FALSE,
                      !.inFlight[i] = IF @ < 2 THEN @ + 1 ELSE @]
       ELSE x
  ELSE IF x.tex[i] THEN [x EXCEPT !.tex[i] = FALSE, !.disposed[i] = TRUE] ELSE x

\* the frame callback of card i: load once when near, dispose when far
useManagedTexture(x, center, i) ==
  IF near(center, i)
  THEN IF ~x.tex[i] /\ ~x.loading[i]
       THEN [x EXCEPT !.loading[i] = TRUE, !.inFlight[i] = @ + 1, !.failed[i] = FALSE]
       ELSE x
  ELSE IF x.tex[i] THEN [x EXCEPT !.tex[i] = FALSE, !.disposed[i] = TRUE] ELSE x

\* the frame callbacks of cards 0 .. n
RECURSIVE cardFrames(_, _, _)
cardFrames(x, center, n) ==
  IF n < 0 THEN x ELSE useManagedTexture(cardFrames(x, center, n - 1), center, n)

\* onLoad of the texture loader of card i
onTextureLoad(x, i) ==
  [x EXCEPT !.tex[i] = TRUE, !.loading[i] = FALSE, !.inFlight[i] = @ - 1]

\* onError of the texture loader of card i
onTextureError(x, i) ==
  [x EXCEPT !.loading[i] = FALSE, !.inFlight[i] = @ - 1, !.failed[i] = TRUE]

\* the frame callbacks of the cards, each reading the centered index
CardFrames ==
  /\ textures' = cardFrames(textures, centerIndex, MaxIdx)
  /\ PageStep("cardFrames")
  /\ UNCHANGED <<names, loader>>

LoadDone(i) ==
  /\ textures.inFlight[i] > 0
  /\ textures' = onTextureLoad(textures, i)
  /\ PageStep("loadDone")
  /\ UNCHANGED <<names, loader>>

LoadError(i) ==
  /\ textures.inFlight[i] > 0
  /\ textures' = onTextureError(textures, i)
  /\ PageStep("loadError")
  /\ UNCHANGED <<names, loader>>

\* scrolls of the user in a run of the textures
MaxTexScrolls == 1

\* wheel / touch scrolling of the host element
TexScroll ==
  /\ ops < MaxTexScrolls
  /\ UserScroll

NextTex ==
  \/ CardFrames
  \/ FrameTick
  \/ TexScroll
  \/ \E i \in Indices : LoadDone(i)
  \/ \E i \in Indices : LoadError(i)

\* every rendered frame runs the callbacks of the cards, and a load in
\* flight calls back
SpecTex ==
  /\ InitBand
  /\ [][NextTex]_vars
  /\ WF_vars(CardFrames)
  /\ \A i \in Indices : WF_vars(LoadDone(i) \/ LoadError(i))

\* C37: a card has at most one texture load in flight; after a frame tick
\* of the cards in which the card is outside the window around the centered
\* index, the card holds no texture; a card inside the window that holds
\* none comes to hold one, unless it leaves the window or its load fails.
C37_WindowedTextures ==
  /\ [](\A i \in Indices : textures.inFlight[i] <= 1)
  /\ [][lastOp' = "cardFrames" =>
          \A i \in Indices : ~near(centerIndex, i) => ~textures'.tex[i]]_vars
  /\ \A i \in Indices :
       (near(centerIndex, i) /\ ~textures.tex[i])
         ~> (textures.tex[i] \/ ~near(centerIndex, i) \/ textures.failed[i])

\* a frame tick has just disposed the texture of a card whose load completed
\* or whose window moved away, and no load of it is in flight
C37_Witness ==
  \E i \in Indices :
    /\ lastOp = "cardFrames"
    /\ textures.disposed[i]
    /\ ~textures.tex[i]
    /\ ~near(centerIndex, i)
    /\ textures.inFlight[i] = 0

====
